---- MODULE Spec2Model ----
(***************************************************************************)
(* Model of QuerySourceCtrl (rd_ui/app/scripts/controllers/                *)
(* query_source.js): the query edit session.  The controller keeps the     *)
(* persisted-text baseline (queryText), the dirty flag, and reconciles     *)
(* edits with the asynchronous completions of save, fork and visualization *)
(* deletion.  The base controller's saveQuery / forkQuery, the server and  *)
(* the user are the environment: what they return or do is chosen with \E. *)
(* One action is one turn of the browser's event loop (one digest).        *)
(***************************************************************************)
EXTENDS Integers, Sequences, FiniteSets

VARIABLES
    query,        \* $scope.query: id, query (the current text), version, visualizations
    queryText,    \* closure variable: the persisted-text baseline
    isNewQuery,   \* closure variable, computed once when the controller is built
    isDirty,      \* $scope.isDirty
    canEdit,      \* $scope.canEdit
    selectedTab,  \* $scope.selectedTab
    location,     \* $location: path, hash, and whether the entry was replaced
    growl,        \* the messages this controller has asked growl to show
    bound,        \* whether the shortcuts are bound in KeyboardShortcuts
    destroyed,    \* whether $destroy has been delivered to the scope
    pending,      \* calls to the collaborators that have not completed yet
    calls,        \* number of requests (save, fork, duplicate, delete, shortcut) handled so far
    last,         \* the step just taken: the handler, its inputs, what it did outside the scope
    stale         \* history: the saves in flight invoked before a save that has succeeded

vars == <<query, queryText, isNewQuery, isDirty, canEdit, selectedTab,
          location, growl, bound, destroyed, pending, calls, last, stale>>

----------------------------------------------------------------------------
(* Bounds of the model *)

MaxCalls == 2       \* requests the user makes in one session

(* Values *)

DEFAULT_TAB == "table"
Conflict == 409
Texts == {"SELECT 1", "SELECT 2", "SELECT 3"}
Versions == {1, 2}               \* versions the server returns
QueryIds == {7, 8}              \* ids the server gives to saved or forked queries
VisIds == {1, 2, 3}             \* ids of the query's visualizations at session open
Statuses == {Conflict, 500}
NoId == 0                       \* stands for an undefined id or version
Keys == {"meta+s", "ctrl+s"}

ConflictMessage == [text |-> "modified by another user", ttl |-> -1]
DeleteErrorMessage == [text |-> "Error deleting visualization", ttl |-> 0]

----------------------------------------------------------------------------
(* Pure helpers *)

\* JavaScript `!x` on an id: only the undefined id is falsy.
Not(id) == id = NoId

\* Number-to-string conversion of a visualization id, as `==` performs it.
IdToTab(id) == IF id = 1 THEN "1" ELSE IF id = 2 THEN "2" ELSE IF id = 3 THEN "3" ELSE "?"

\* `$scope.selectedTab == vis.id`: loose equality between the tab name and the id.
LooseEq(tab, id) == tab = IdToTab(id)

\* The tabs of the page: the default tab and one for each visualization in vs.
Tabs(vs) == {DEFAULT_TAB} \cup {IdToTab(vs[i]) : i \in 1 .. Len(vs)}

\* savedQuery.getSourceLink()
getSourceLink(savedQuery) == <<"queries", savedQuery.id, "source">>

\* Array.prototype.filter with the predicate vis.id !== v.id
RECURSIVE filter(_, _)
filter(vs, id) ==
    IF vs = <<>> THEN <<>>
    ELSE IF id # Head(vs) THEN <<Head(vs)>> \o filter(Tail(vs), id)
    ELSE filter(Tail(vs), id)

\* $location.path(p): the path changes, the hash is kept, a history entry is pushed.
LocationPath(loc, p) == [loc EXCEPT !.path = p, !.replace = FALSE]

\* The redirect done with $location.path(u).replace(): the hash is kept.
LocationUrlReplace_KeepsHash(loc, u) == [loc EXCEPT !.path = u, !.replace = TRUE]

\* $location.url(u).replace(): u carries no fragment, so the hash is cleared.
LocationUrlReplace(loc, u) == [path |-> u, hash |-> "", replace |-> TRUE]

\* $location.hash(h)
LocationHash(loc, h) == [loc EXCEPT !.hash = h, !.replace = FALSE]

SavedQueries == [query : Texts, version : Versions, id : QueryIds]

\* The saves in flight (by seq, the order of invocation) that were invoked
\* before a save that has succeeded, once the save p has succeeded too.
StaleAfterSuccess(old, ps, p) ==
    (old \cup {q.seq : q \in {r \in ps : r.kind = "save" /\ r.seq < p.seq}}) \ {p.seq}

\* The record of a step; every action fills in what applies: the handler
\* (op), the text, version and status it was given, the text that had been
\* sent with the save (sent), the call it made to $location (nav) and the id
\* of the query it navigated to (id), whether it threw, what it returned,
\* what the promise its caller holds settled to, the collaborator it invoked
\* (invoked) and whether that collaborator handed back a promise (deferred).
Ev(op) == [op |-> op, text |-> "", version |-> NoId, id |-> NoId, status |-> 0,
           sent |-> "", nav |-> "none", threw |-> FALSE, returned |-> "nothing",
           caller |-> "none", invoked |-> "none", deferred |-> FALSE]

\* The options duplicateQuery passes to forkQuery.
DuplicateOptions ==
    [successMessage |-> "Query forked", errorMessage |-> "Query could not be forked"]

\* The options of the other callers, which this controller passes on untouched.
CallerOptions == [successMessage |-> "", errorMessage |-> ""]

\* A call in flight.
Call(kind, text, dup, vis, returned) ==
    [kind |-> kind, seq |-> calls + 1, text |-> text, dup |-> dup, vis |-> vis,
     returned |-> returned,
     options |-> IF dup THEN DuplicateOptions ELSE CallerOptions]

\* What the promise handed back to the caller settles to when savePromise
\* settles to `outcome`: savePromise itself carries the outcome; the promise
\* derived by .then(onSuccess, onError) is resolved once a handler returned.
Settles(returned, outcome) ==
    IF returned = "savePromise" THEN outcome
    ELSE IF returned = "derived" THEN "resolved"
    ELSE "none"

----------------------------------------------------------------------------
(* The session opens on a new query (no id, no version) or on the saved query *)
(* 7 at version 1, with the text "SELECT 1", three visualizations and the tab *)
(* of visualization 1 selected.                                               *)
Init ==
    /\ \E id \in {NoId, 7} :
          query = [id |-> id, query |-> "SELECT 1",
                   version |-> IF id = NoId THEN NoId ELSE 1,
                   visualizations |-> <<1, 2, 3>>]
    /\ queryText = query.query
    /\ isNewQuery = Not(query.id)
    /\ isDirty = FALSE
    /\ canEdit \in BOOLEAN
    /\ selectedTab = "1"
    /\ location = [path |-> <<"queries", query.id, "source">>, hash |-> selectedTab,
                   replace |-> FALSE]
    /\ growl = <<>>
    /\ bound = TRUE
    /\ destroyed = FALSE
    /\ pending = {}
    /\ calls = 0
    /\ last = Ev("open")
    /\ stale = {}

----------------------------------------------------------------------------
\* Edit with the watch marking the draft dirty on every change.
Edit_AlwaysDirty(t) ==
    /\ ~destroyed
    /\ t # query.query
    /\ query' = [query EXCEPT !.query = t]
    /\ isDirty' = TRUE
    /\ last' = [Ev("edit") EXCEPT !.text = t]
    /\ UNCHANGED <<queryText, isNewQuery, stale, canEdit, selectedTab, location, growl,
                   bound, destroyed, pending, calls>>

(* The user edits the text; the watch on 'query.query' runs in the same digest. *)
Edit(t) ==
    /\ ~destroyed
    /\ t # query.query
    /\ query' = [query EXCEPT !.query = t]
    /\ isDirty' = (t # queryText)
    /\ last' = [Ev("edit") EXCEPT !.text = t]
    /\ UNCHANGED <<queryText, isNewQuery, stale, canEdit, selectedTab, location, growl,
                   bound, destroyed, pending, calls>>

----------------------------------------------------------------------------
(* $scope.saveQuery: the body up to the return.  `deferred` is whether the   *)
(* base controller's saveQuery handed back a promise.                       *)

\* saveQuery returning the promise derived by .then instead of savePromise.
SaveQueryReturn_Derived == "derived"

\* What saveQuery returns when the collaborator produced a promise (line 78).
SaveQueryReturn == "savePromise"

\* saveQuery chaining .then without checking that a promise came back.
SaveQueryBody_NoCheck(op, deferred) ==
    /\ calls < MaxCalls
    /\ calls' = calls + 1
    /\ IF deferred
       THEN /\ pending' = pending \cup {Call("save", query.query, FALSE, NoId, SaveQueryReturn)}
            /\ last' = [Ev(op) EXCEPT !.returned = SaveQueryReturn, !.invoked = "save",
                                      !.deferred = TRUE]
       ELSE /\ UNCHANGED pending
            /\ last' = [Ev(op) EXCEPT !.invoked = "save", !.threw = TRUE]
    /\ UNCHANGED <<query, queryText, isNewQuery, stale, isDirty, canEdit, selectedTab,
                   location, growl, bound, destroyed>>

SaveQueryBody(op, deferred) ==
    /\ calls < MaxCalls
    /\ calls' = calls + 1
    /\ IF deferred
       THEN /\ pending' = pending \cup {Call("save", query.query, FALSE, NoId, SaveQueryReturn)}
            /\ last' = [Ev(op) EXCEPT !.returned = SaveQueryReturn, !.invoked = "save",
                                      !.deferred = TRUE]
       ELSE /\ UNCHANGED pending
            /\ last' = [Ev(op) EXCEPT !.invoked = "save"]
    /\ UNCHANGED <<query, queryText, isNewQuery, stale, isDirty, canEdit, selectedTab,
                   location, growl, bound, destroyed>>

(* The view calls $scope.saveQuery(). *)
SaveQuery(deferred) ==
    /\ ~destroyed
    /\ SaveQueryBody("saveQuery", deferred)

\* The shortcuts saving without looking at canEdit.
Shortcut_IgnoresCanEdit(key, deferred) ==
    /\ bound
    /\ SaveQueryBody(key, deferred)

(* A save shortcut ('meta+s' or 'ctrl+s') is pressed while the shortcuts are bound. *)
Shortcut(key, deferred) ==
    /\ bound
    /\ IF canEdit
       THEN SaveQueryBody(key, deferred)
       ELSE /\ calls < MaxCalls
            /\ calls' = calls + 1
            /\ last' = Ev(key)
            /\ UNCHANGED <<query, queryText, isNewQuery, stale, isDirty, canEdit, selectedTab,
                           location, growl, bound, destroyed, pending>>

\* The success callback comparing the text sent with the save, not the live text.
SaveSuccess_Snapshot(p, savedQuery) ==
    /\ p \in pending
    /\ p.kind = "save"
    /\ queryText' = savedQuery.query
    /\ isDirty' = (p.text # queryText')
    /\ query' = [query EXCEPT !.version = savedQuery.version]
    /\ location' = IF isNewQuery THEN LocationPath(location, getSourceLink(savedQuery))
                   ELSE location
    /\ pending' = pending \ {p}
    /\ last' = [Ev("saveSuccess") EXCEPT !.sent = p.text, !.text = savedQuery.query,
                     !.version = savedQuery.version,
                     !.id = IF isNewQuery THEN savedQuery.id ELSE NoId,
                     !.nav = IF isNewQuery THEN "path" ELSE "none",
                     !.caller = Settles(p.returned, "resolved")]
    /\ stale' = StaleAfterSuccess(stale, pending, p)
    /\ UNCHANGED <<isNewQuery, canEdit, selectedTab, growl, bound, destroyed, calls>>

\* The success callback leaving the draft's version as it was.
SaveSuccess_KeepsVersion(p, savedQuery) ==
    /\ p \in pending
    /\ p.kind = "save"
    /\ queryText' = savedQuery.query
    /\ isDirty' = (query.query # queryText')
    /\ query' = query
    /\ location' = IF isNewQuery THEN LocationPath(location, getSourceLink(savedQuery))
                   ELSE location
    /\ pending' = pending \ {p}
    /\ last' = [Ev("saveSuccess") EXCEPT !.sent = p.text, !.text = savedQuery.query,
                     !.version = savedQuery.version,
                     !.id = IF isNewQuery THEN savedQuery.id ELSE NoId,
                     !.nav = IF isNewQuery THEN "path" ELSE "none",
                     !.caller = Settles(p.returned, "resolved")]
    /\ stale' = StaleAfterSuccess(stale, pending, p)
    /\ UNCHANGED <<isNewQuery, canEdit, selectedTab, growl, bound, destroyed, calls>>

\* The success callback replacing the text in the editor by the saved text.
SaveSuccess_TakesText(p, savedQuery) ==
    /\ p \in pending
    /\ p.kind = "save"
    /\ queryText' = savedQuery.query
    /\ isDirty' = FALSE
    /\ query' = [query EXCEPT !.query = savedQuery.query, !.version = savedQuery.version]
    /\ location' = IF isNewQuery THEN LocationPath(location, getSourceLink(savedQuery))
                   ELSE location
    /\ pending' = pending \ {p}
    /\ last' = [Ev("saveSuccess") EXCEPT !.sent = p.text, !.text = savedQuery.query,
                     !.version = savedQuery.version,
                     !.id = IF isNewQuery THEN savedQuery.id ELSE NoId,
                     !.nav = IF isNewQuery THEN "path" ELSE "none",
                     !.caller = Settles(p.returned, "resolved")]
    /\ stale' = StaleAfterSuccess(stale, pending, p)
    /\ UNCHANGED <<isNewQuery, canEdit, selectedTab, growl, bound, destroyed, calls>>

(* savePromise is resolved with savedQuery: the success callback of saveQuery. *)
SaveSuccess(p, savedQuery) ==
    /\ p \in pending
    /\ p.kind = "save"
    /\ queryText' = savedQuery.query
    /\ isDirty' = (query.query # queryText')
    /\ query' = [query EXCEPT !.version = savedQuery.version]
    /\ location' = IF isNewQuery THEN LocationPath(location, getSourceLink(savedQuery))
                   ELSE location
    /\ pending' = pending \ {p}
    /\ last' = [Ev("saveSuccess") EXCEPT !.sent = p.text, !.text = savedQuery.query,
                     !.version = savedQuery.version,
                     !.id = IF isNewQuery THEN savedQuery.id ELSE NoId,
                     !.nav = IF isNewQuery THEN "path" ELSE "none",
                     !.caller = Settles(p.returned, "resolved")]
    /\ stale' = StaleAfterSuccess(stale, pending, p)
    /\ UNCHANGED <<isNewQuery, canEdit, selectedTab, growl, bound, destroyed, calls>>

\* The error callback taking the live text as the new baseline on a conflict.
SaveError_RebaseOnConflict(p, status) ==
    /\ p \in pending
    /\ p.kind = "save"
    /\ growl' = IF status = Conflict THEN Append(growl, ConflictMessage) ELSE growl
    /\ queryText' = IF status = Conflict THEN query.query ELSE queryText
    /\ isDirty' = IF status = Conflict THEN FALSE ELSE isDirty
    /\ pending' = pending \ {p}
    /\ stale' = stale \ {p.seq}
    /\ last' = [Ev("saveError") EXCEPT !.status = status,
                     !.caller = Settles(p.returned, "rejected")]
    /\ UNCHANGED <<query, isNewQuery, canEdit, selectedTab, location, bound,
                   destroyed, calls>>

\* The error callback raising the warning whatever the status.
SaveError_WarnsAlways(p, status) ==
    /\ p \in pending
    /\ p.kind = "save"
    /\ growl' = Append(growl, ConflictMessage)
    /\ pending' = pending \ {p}
    /\ stale' = stale \ {p.seq}
    /\ last' = [Ev("saveError") EXCEPT !.status = status,
                     !.caller = Settles(p.returned, "rejected")]
    /\ UNCHANGED <<query, queryText, isNewQuery, isDirty, canEdit, selectedTab,
                   location, bound, destroyed, calls>>

\* The error callback sending the save again after a conflict.
SaveError_RetriesOnConflict(p, status) ==
    /\ p \in pending
    /\ p.kind = "save"
    /\ growl' = IF status = Conflict THEN Append(growl, ConflictMessage) ELSE growl
    /\ pending' = IF status = Conflict
                  THEN (pending \ {p}) \cup {[p EXCEPT !.text = query.query]}
                  ELSE pending \ {p}
    /\ stale' = IF status = Conflict THEN stale ELSE stale \ {p.seq}
    /\ last' = [Ev("saveError") EXCEPT !.status = status,
                     !.caller = Settles(p.returned, "rejected"),
                     !.invoked = IF status = Conflict THEN "save" ELSE "none",
                     !.deferred = (status = Conflict)]
    /\ UNCHANGED <<query, queryText, isNewQuery, isDirty, canEdit, selectedTab,
                   location, bound, destroyed, calls>>

(* savePromise is rejected with an error of the given status: the error callback. *)
SaveError(p, status) ==
    /\ p \in pending
    /\ p.kind = "save"
    /\ growl' = IF status = Conflict THEN Append(growl, ConflictMessage) ELSE growl
    /\ pending' = pending \ {p}
    /\ stale' = stale \ {p.seq}
    /\ last' = [Ev("saveError") EXCEPT !.status = status,
                     !.caller = Settles(p.returned, "rejected")]
    /\ UNCHANGED <<query, queryText, isNewQuery, isDirty, canEdit, selectedTab,
                   location, bound, destroyed, calls>>

----------------------------------------------------------------------------
(* $scope.forkQuery, called by the view (dup = FALSE) or by duplicateQuery. *)
ForkQueryBody(op, deferred, dup) ==
    /\ calls < MaxCalls
    /\ calls' = calls + 1
    /\ IF deferred
       THEN /\ pending' = pending \cup {Call("fork", "", dup, NoId, "savePromise")}
            /\ last' = [Ev(op) EXCEPT !.returned = "savePromise", !.invoked = "fork",
                                      !.deferred = TRUE]
       ELSE /\ UNCHANGED pending
            \* duplicateQuery calls .then on the undefined result: a TypeError
            /\ last' = [Ev(op) EXCEPT !.threw = dup, !.invoked = "fork"]
    /\ UNCHANGED <<query, queryText, isNewQuery, stale, isDirty, canEdit, selectedTab,
                   location, growl, bound, destroyed>>

ForkQuery(deferred) ==
    /\ ~destroyed
    /\ ForkQueryBody("forkQuery", deferred, FALSE)

(* $scope.duplicateQuery *)
DuplicateQuery(deferred) ==
    /\ ~destroyed
    /\ ForkQueryBody("duplicateQuery", deferred, TRUE)

\* forkQuery's callback also taking the fork's version, as the save callback does.
ForkSuccess_TakesVersion(p, savedQuery) ==
    /\ p \in pending
    /\ p.kind = "fork"
    /\ queryText' = savedQuery.query
    /\ query' = [query EXCEPT !.version = savedQuery.version]
    /\ location' = IF p.dup THEN LocationUrlReplace(location, getSourceLink(savedQuery))
                   ELSE location
    /\ pending' = pending \ {p}
    /\ last' = [Ev("forkSuccess") EXCEPT !.text = savedQuery.query,
                     !.id = IF p.dup THEN savedQuery.id ELSE NoId,
                     !.nav = IF p.dup THEN "url" ELSE "none"]
    /\ UNCHANGED <<isNewQuery, stale, isDirty, canEdit, selectedTab, growl, bound,
                   destroyed, calls>>

(* The fork's promise is resolved: forkQuery's callback, then, for a fork     *)
(* started by duplicateQuery, the redirect callback chained on the promise. *)
ForkSuccess(p, savedQuery) ==
    /\ p \in pending
    /\ p.kind = "fork"
    /\ queryText' = savedQuery.query
    /\ location' = IF p.dup THEN LocationUrlReplace(location, getSourceLink(savedQuery))
                   ELSE location
    /\ pending' = pending \ {p}
    /\ last' = [Ev("forkSuccess") EXCEPT !.text = savedQuery.query,
                     !.id = IF p.dup THEN savedQuery.id ELSE NoId,
                     !.nav = IF p.dup THEN "url" ELSE "none"]
    /\ UNCHANGED <<query, isNewQuery, stale, isDirty, canEdit, selectedTab, growl, bound,
                   destroyed, calls>>

\* A rejection handled like a resolution by duplicateQuery: .then(redirect, redirect).
ForkError_Redirects(p, status) ==
    /\ p \in pending
    /\ p.kind = "fork"
    /\ location' = IF p.dup THEN LocationUrlReplace(location, getSourceLink(query))
                   ELSE location
    /\ pending' = pending \ {p}
    /\ last' = [Ev("forkError") EXCEPT !.status = status,
                     !.nav = IF p.dup THEN "url" ELSE "none"]
    /\ UNCHANGED <<query, queryText, isNewQuery, stale, isDirty, canEdit, selectedTab,
                   growl, bound, destroyed, calls>>

(* The fork's promise is rejected: this controller registered no error callback. *)
ForkError(p, status) ==
    /\ p \in pending
    /\ p.kind = "fork"
    /\ pending' = pending \ {p}
    /\ last' = [Ev("forkError") EXCEPT !.status = status]
    /\ UNCHANGED <<query, queryText, isNewQuery, stale, isDirty, canEdit, selectedTab,
                   location, growl, bound, destroyed, calls>>

----------------------------------------------------------------------------
\* The handler calling Visualization.delete whatever the answer to confirm() is.
DeleteVisualization_NoConfirm(vis, confirmed) ==
    /\ ~destroyed
    /\ \E i \in 1 .. Len(query.visualizations) : query.visualizations[i] = vis
    /\ calls < MaxCalls
    /\ calls' = calls + 1
    /\ pending' = pending \cup {Call("delete", "", FALSE, vis, "nothing")}
    /\ last' = [Ev(IF confirmed THEN "deleteVisualization" ELSE "deleteDeclined")
                   EXCEPT !.id = vis, !.invoked = "delete", !.deferred = TRUE]
    /\ UNCHANGED <<query, queryText, isNewQuery, stale, isDirty, canEdit, selectedTab,
                   location, growl, bound, destroyed>>

(* $scope.deleteVisualization($e, vis); `confirmed` is the answer to confirm(). *)
DeleteVisualization(vis, confirmed) ==
    /\ ~destroyed
    /\ \E i \in 1 .. Len(query.visualizations) : query.visualizations[i] = vis
    /\ calls < MaxCalls
    /\ calls' = calls + 1
    /\ IF confirmed
       THEN /\ pending' = pending \cup {Call("delete", "", FALSE, vis, "nothing")}
            /\ last' = [Ev("deleteVisualization") EXCEPT !.id = vis, !.invoked = "delete",
                                                         !.deferred = TRUE]
       ELSE /\ UNCHANGED pending
            /\ last' = [Ev("deleteDeclined") EXCEPT !.id = vis]
    /\ UNCHANGED <<query, queryText, isNewQuery, stale, isDirty, canEdit, selectedTab,
                   location, growl, bound, destroyed>>

\* The success callback comparing the deleted visualization with the tab that
\* was selected when the page was opened, not with the tab selected now.
DeleteSuccess_TabAtOpen(p) ==
    /\ p \in pending
    /\ p.kind = "delete"
    /\ IF LooseEq("1", p.vis)
       THEN /\ selectedTab' = DEFAULT_TAB
            /\ location' = LocationHash(location, DEFAULT_TAB)
       ELSE UNCHANGED <<selectedTab, location>>
    /\ query' = [query EXCEPT !.visualizations = filter(query.visualizations, p.vis)]
    /\ pending' = pending \ {p}
    /\ last' = [Ev("deleteSuccess") EXCEPT !.id = p.vis,
                     !.nav = IF LooseEq("1", p.vis) THEN "hash" ELSE "none"]
    /\ UNCHANGED <<queryText, isNewQuery, stale, isDirty, canEdit, growl, bound, destroyed, calls>>

(* Visualization.delete reports success. *)
DeleteSuccess(p) ==
    /\ p \in pending
    /\ p.kind = "delete"
    /\ IF LooseEq(selectedTab, p.vis)
       THEN /\ selectedTab' = DEFAULT_TAB
            /\ location' = LocationHash(location, DEFAULT_TAB)
       ELSE UNCHANGED <<selectedTab, location>>
    /\ query' = [query EXCEPT !.visualizations = filter(query.visualizations, p.vis)]
    /\ pending' = pending \ {p}
    /\ last' = [Ev("deleteSuccess") EXCEPT !.id = p.vis,
                     !.nav = IF LooseEq(selectedTab, p.vis) THEN "hash" ELSE "none"]
    /\ UNCHANGED <<queryText, isNewQuery, stale, isDirty, canEdit, growl, bound, destroyed, calls>>

(* Visualization.delete reports failure. *)
DeleteError(p) ==
    /\ p \in pending
    /\ p.kind = "delete"
    /\ growl' = Append(growl, DeleteErrorMessage)
    /\ pending' = pending \ {p}
    /\ last' = [Ev("deleteError") EXCEPT !.id = p.vis]
    /\ UNCHANGED <<query, queryText, isNewQuery, stale, isDirty, canEdit, selectedTab,
                   location, bound, destroyed, calls>>

----------------------------------------------------------------------------
(* The user selects another tab of the page: the base controller sets      *)
(* $scope.selectedTab and the hash of the location to the tab's name.      *)
SelectTab(tab) ==
    /\ ~destroyed
    /\ tab \in Tabs(query.visualizations)
    /\ tab # selectedTab
    /\ calls < MaxCalls
    /\ calls' = calls + 1
    /\ selectedTab' = tab
    /\ location' = LocationHash(location, tab)
    /\ last' = [Ev("selectTab") EXCEPT !.nav = "hash"]
    /\ UNCHANGED <<query, queryText, isNewQuery, stale, isDirty, canEdit, growl, bound,
                   destroyed, pending>>

----------------------------------------------------------------------------
(* The scope receives $destroy: the handler unbinds the shortcuts. *)
Destroy ==
    /\ ~destroyed
    /\ destroyed' = TRUE
    /\ bound' = FALSE
    /\ last' = Ev("destroy")
    /\ UNCHANGED <<query, queryText, isNewQuery, stale, isDirty, canEdit, selectedTab,
                   location, growl, pending, calls>>

----------------------------------------------------------------------------
Next ==
    \/ \E t \in Texts : Edit(t)
    \/ \E d \in BOOLEAN : SaveQuery(d)
    \/ \E k \in Keys, d \in BOOLEAN : Shortcut(k, d)
    \/ \E p \in pending, sq \in SavedQueries : SaveSuccess(p, sq)
    \/ \E p \in pending, st \in Statuses : SaveError(p, st)
    \/ \E d \in BOOLEAN : ForkQuery(d)
    \/ \E d \in BOOLEAN : DuplicateQuery(d)
    \/ \E p \in pending, sq \in SavedQueries : ForkSuccess(p, sq)
    \/ \E p \in pending, st \in Statuses : ForkError(p, st)
    \/ \E v \in VisIds, c \in BOOLEAN : DeleteVisualization(v, c)
    \/ \E p \in pending : DeleteSuccess(p)
    \/ \E p \in pending : DeleteError(p)
    \/ \E tab \in Tabs(query.visualizations) : SelectTab(tab)
    \/ Destroy

Spec == Init /\ [][Next]_vars

----------------------------------------------------------------------------
(* Properties of the edit session *)

\* Whether the draft has never been persisted: it had no id when the session
\* opened and no save has given it a version since.
NeverPersisted == Not(query.id) /\ query.version = NoId

Completions == {"saveSuccess", "saveError", "forkSuccess", "forkError"}

\* C1: in every reachable state isDirty is true exactly when the current
\* query text differs from the persisted-text baseline queryText.
C1_DirtyIffTextDiffers == isDirty <=> (query.query # queryText)

\* C2: when the text was edited while a save was in flight (the live text is
\* no longer the text sent with the save) and the save resolves with text s,
\* isDirty is (live text # s): the comparison uses the live text.
C2_DirtyUsesLiveText ==
    (last.op = "saveSuccess" /\ last.sent # query.query)
        => isDirty = (query.query # last.text)

\* C2 witness: the server returned exactly the text that was sent, an edit
\* made in flight keeps the draft dirty.
C2_Witness ==
    /\ last.op = "saveSuccess"
    /\ last.sent # query.query
    /\ last.sent = last.text
    /\ isDirty

\* C3: after a save resolves with text s and version v, the baseline is s,
\* the draft's version is v, and isDirty is (current text # s).
C3_SaveSuccessEffect ==
    last.op = "saveSuccess"
        => /\ queryText = last.text
           /\ query.version = last.version
           /\ isDirty = (query.query # last.text)

\* C3 witness: the draft edited to "SELECT 2" and saved as version 2 is clean.
C3_Witness ==
    /\ last.op = "saveSuccess"
    /\ last.text = "SELECT 2"
    /\ last.version = 2
    /\ query.query = "SELECT 2"
    /\ ~isDirty

\* C4: once the session is destroyed, the completion of a save or fork
\* changes neither isDirty, the baseline nor the version, navigates nowhere
\* and raises no error.
C4_CompletionAfterDestroyIsNoOp ==
    [][(destroyed /\ last'.op \in Completions)
          => /\ isDirty' = isDirty
             /\ queryText' = queryText
             /\ query'.version = query.version
             /\ location' = location
             /\ last'.nav = "none"
             /\ ~last'.threw]_vars

\* C5: a save failing with status 409 leaves the baseline, the version, the
\* current text and isDirty as they were.
C5_ConflictMutatesNothing ==
    [][(last'.op = "saveError" /\ last'.status = Conflict)
          => /\ queryText' = queryText
             /\ query'.version = query.version
             /\ query'.query = query.query
             /\ isDirty' = isDirty]_vars

\* C5 witness: a conflict reported while the draft holds unsaved edits.
C5_Witness ==
    /\ last.op = "saveError"
    /\ last.status = Conflict
    /\ isDirty
    /\ query.query # queryText

\* C6: a save failing with a status other than 409 changes no session state,
\* navigates nowhere, shows no warning, and the promise saveQuery returned
\* to its caller is rejected.
C6_OtherFailurePropagates ==
    [][(last'.op = "saveError" /\ last'.status # Conflict)
          => /\ queryText' = queryText
             /\ query' = query
             /\ isDirty' = isDirty
             /\ location' = location
             /\ growl' = growl
             /\ last'.nav = "none"
             /\ last'.caller = "rejected"]_vars

\* C6 witness: a save rejected with status 500 while the draft is dirty.
C6_Witness ==
    /\ last.op = "saveError"
    /\ last.status = 500
    /\ last.caller = "rejected"
    /\ isDirty

\* C7: a successful fork sets the baseline to the fork's text and leaves the
\* current text, the version and isDirty as they were; a fork that was not
\* started by duplicateQuery leaves the location as it was.
C7_ForkSuccessFrame ==
    [][last'.op = "forkSuccess"
          => /\ queryText' = last'.text
             /\ query' = query
             /\ isDirty' = isDirty
             /\ \A p \in pending \ pending' :
                    ~p.dup => (location' = location /\ last'.nav = "none")]_vars

\* C7 witness: a plain fork resolved with a text other than the current one.
C7_Witness ==
    /\ last.op = "forkSuccess"
    /\ last.nav = "none"
    /\ queryText = last.text
    /\ queryText # query.query

\* C8: after edit(t) the current text is t and isDirty is (t # queryText);
\* the edit leaves the baseline and the version as they were, the baseline
\* being changed only by a successful save or fork, to the text returned.
C8_EditRecomputesDirty ==
    [][/\ last'.op = "edit"
          => /\ query'.query = last'.text
             /\ isDirty' = (last'.text # queryText)
             /\ queryText' = queryText
             /\ query'.version = query.version
       /\ queryText' # queryText
          => (last'.op \in {"saveSuccess", "forkSuccess"} /\ queryText' = last'.text)]_vars

\* C8 witness: an edit back to a baseline that a save or fork established.
C8_Witness ==
    /\ last.op = "edit"
    /\ queryText # "SELECT 1"
    /\ last.text = queryText
    /\ ~isDirty

\* C9: when the fork collaborator returns undefined, duplicateQuery raises
\* no error and does not navigate.
C9_DuplicateChecksDeferred ==
    (last.op = "duplicateQuery" /\ last.returned = "nothing")
        => (~last.threw /\ last.nav = "none")

\* C10: a successful save navigates to the saved query's source link, keeping
\* the hash, exactly when the draft has never been persisted at that time.
C10_NavigateIffNeverPersisted ==
    [][last'.op = "saveSuccess"
          => ((/\ last'.nav = "path"
               /\ location'.path = getSourceLink([id |-> last'.id])
               /\ location'.hash = location.hash)
              <=> NeverPersisted)]_vars

\* The steps in which $scope.saveQuery ran: a call by the view, or a save
\* shortcut pressed by a user who can edit.
SaveRequest(ev) == ev.op = "saveQuery" \/ (ev.op \in Keys /\ ev.invoked = "save")

\* C11: when the save collaborator returns no deferred result, saveQuery
\* returns nothing, registers no completion callback (nothing is added to the
\* calls in flight), raises no error, and leaves isDirty, the baseline, the
\* version, the current text, the location and the warnings as they were.
C11_NoDeferredIsNoOp ==
    [][(SaveRequest(last') /\ ~last'.deferred)
          => /\ last'.returned = "nothing"
             /\ pending' = pending
             /\ ~last'.threw
             /\ last'.nav = "none"
             /\ isDirty' = isDirty
             /\ queryText' = queryText
             /\ query' = query
             /\ location' = location
             /\ growl' = growl]_vars

\* C11 witness: saveQuery on a dirty draft, the collaborator returning nothing.
C11_Witness ==
    /\ SaveRequest(last)
    /\ ~last.deferred
    /\ last.returned = "nothing"
    /\ isDirty
    /\ pending = {}

\* The number of messages in g that never expire (ttl -1).
NonExpiring(g) == Cardinality({i \in 1 .. Len(g) : g[i].ttl = -1})

\* C12: a step adds one non-expiring warning, the concurrent-modification
\* message, when it is a save failing with status 409, and no step of any
\* other kind adds or removes a non-expiring warning.
C12_WarningExactlyOnConflict ==
    [][IF last'.op = "saveError" /\ last'.status = Conflict
       THEN /\ growl' = Append(growl, ConflictMessage)
            /\ NonExpiring(growl') = NonExpiring(growl) + 1
       ELSE NonExpiring(growl') = NonExpiring(growl)]_vars

\* C12 witness: two saves failed with 409 and two warnings are shown.
C12_Witness ==
    /\ last.op = "saveError"
    /\ last.status = Conflict
    /\ NonExpiring(growl) = 2

\* C13: duplicateQuery starts a fork with the fixed messages and does not
\* navigate by itself; when that fork succeeds the step navigates once, by
\* $location.url(...).replace(), to the fork's source link with the hash
\* cleared; when it fails the location stays as it was.
C13_DuplicateForksThenRedirects ==
    [][/\ (last'.op = "duplicateQuery" /\ last'.deferred)
          => /\ \E p \in pending' \ pending :
                    /\ p.kind = "fork"
                    /\ p.options = DuplicateOptions
                    /\ pending' = pending \cup {p}
             /\ location' = location
             /\ last'.nav = "none"
       /\ \A p \in pending \ pending' :
             (p.kind = "fork" /\ p.options = DuplicateOptions)
                => IF last'.op = "forkSuccess"
                   THEN /\ last'.nav = "url"
                        /\ location' = [path |-> getSourceLink([id |-> last'.id]),
                                         hash |-> "", replace |-> TRUE]
                   ELSE /\ last'.op = "forkError"
                        /\ last'.nav = "none"
                        /\ location' = location]_vars

\* C13 witness: the fork of a duplicate succeeded on a page that had a hash;
\* the location is the fork's, the hash is empty, the entry was replaced.
C13_Witness ==
    /\ last.op = "forkSuccess"
    /\ last.nav = "url"
    /\ location = [path |-> getSourceLink([id |-> 8]), hash |-> "", replace |-> TRUE]

\* Whether v is another visualization than the one with id last'.id.
IsKept(v) == v # last'.id

\* C14: a deletion success leaves exactly the visualizations with another
\* id, in their order; the selected tab becomes the default tab, and the
\* hash with it, when it was the deleted visualization's tab, and stays as it
\* was otherwise; the selected tab is always the tab of a visualization that
\* is still in the collection, or the default tab.
C14_DeleteSuccessEffect ==
    [][/\ last'.op = "deleteSuccess"
          => /\ query'.visualizations = SelectSeq(query.visualizations, IsKept)
             /\ IF selectedTab = IdToTab(last'.id)
                THEN /\ selectedTab' = DEFAULT_TAB
                     /\ location'.hash = DEFAULT_TAB
                     /\ location'.path = location.path
                ELSE /\ selectedTab' = selectedTab
                     /\ location' = location
       /\ selectedTab' \in Tabs(query'.visualizations)]_vars

\* C14 witness: the user had moved from the tab of visualization 1 to the tab
\* of visualization 2 when the deletion of visualization 2 succeeded: 1 and 3
\* are left, in that order, and the tab and the hash are the default tab.
C14_Witness ==
    /\ last.op = "deleteSuccess"
    /\ last.id = 2
    /\ last.nav = "hash"
    /\ query.visualizations = <<1, 3>>
    /\ selectedTab = DEFAULT_TAB
    /\ location.hash = DEFAULT_TAB

\* The saves in flight.
Saves(ps) == {p \in ps : p.kind = "save"}

\* C15: the save collaborator is invoked only in a step in which the user
\* asked for a save (a saveQuery call or a save shortcut), once in that step;
\* a save failing with 409, like every other completion, invokes nothing and
\* puts no save in flight.  So the invocations of the save collaborator
\* never outnumber the user's save requests.
C15_NoAutomaticRetry ==
    [][/\ (last'.invoked = "save" \/ Saves(pending') \ Saves(pending) # {})
          => (last'.op \in {"saveQuery"} \cup Keys)
       /\ Cardinality(Saves(pending') \ Saves(pending)) <= 1
       /\ last'.op = "saveError"
          => (last'.invoked = "none" /\ Saves(pending') \subseteq Saves(pending))]_vars

\* C15 witness: a save failed with 409 and no save is in flight afterwards.
C15_Witness ==
    /\ last.op = "saveError"
    /\ last.status = Conflict
    /\ last.invoked = "none"
    /\ Saves(pending) = {}
    /\ isDirty

\* C16: a save shortcut runs the session's saveQuery (one invocation of the
\* save collaborator, its promise registered with the callbacks that reconcile
\* isDirty, as for a call by the view) when canEdit is true; when canEdit is
\* false it invokes nothing and changes no state.
C16_ShortcutNeedsCanEdit ==
    [][last'.op \in Keys
          => IF canEdit
             THEN /\ last'.invoked = "save"
                  /\ last'.deferred
                        => \E p \in pending' \ pending :
                              /\ p.kind = "save"
                              /\ p.text = query.query
                              /\ pending' = pending \cup {p}
                  /\ ~last'.deferred => pending' = pending
             ELSE /\ last'.invoked = "none"
                  /\ pending' = pending
                  /\ UNCHANGED <<query, queryText, isNewQuery, isDirty, selectedTab,
                                  location, growl, bound, destroyed>>]_vars

\* C16 witness: a user who cannot edit pressed ctrl+s; nothing is in flight.
C16_Witness ==
    /\ last.op = "ctrl+s"
    /\ ~canEdit
    /\ last.invoked = "none"
    /\ pending = {}

\* C17: the current text changes only in an edit, to the text edited; the
\* completion of a save or of a fork, successful or not, leaves it as it was.
C17_OnlyEditChangesText ==
    [][/\ query'.query # query.query
          => (last'.op = "edit" /\ query'.query = last'.text)
       /\ last'.op \in Completions => query'.query = query.query]_vars

\* C17 witness: a save resolved with a text other than the one in the editor,
\* which still holds what the user typed.
C17_Witness ==
    /\ last.op = "saveSuccess"
    /\ last.text # query.query
    /\ query.query = "SELECT 3"
    /\ queryText = last.text

\* C18: when several saves are in flight at once, the response of a save that
\* was invoked before a save that has already succeeded (a stale response)
\* does not overwrite the baseline and the version, so that after all of them
\* have resolved these are the ones returned by the save invoked last.
C18_LatestSaveWins ==
    [][last'.op = "saveSuccess"
          => \A p \in pending \ pending' :
                p.seq \in stale
                   => (queryText' = queryText /\ query'.version = query.version)]_vars

\* C19: a fork that fails, whether started by forkQuery or by duplicateQuery,
\* leaves the baseline, isDirty, the version and the current text unchanged,
\* adds no non-expiring warning and makes no call to $location.
C19_ForkErrorMutatesNothing ==
    [][last'.op = "forkError"
          => \A p \in pending \ pending' :
                /\ p.kind = "fork"
                /\ UNCHANGED <<queryText, isDirty>>
                /\ query'.version = query.version
                /\ query'.query = query.query
                /\ NonExpiring(growl') = NonExpiring(growl)
                /\ location' = location
                /\ last'.nav = "none"]_vars

\* C19 witness: a fork failed with 409 in a dirty draft; no warning is shown
\* and the location is still the one of the page opened.
C19_Witness ==
    /\ last.op = "forkError"
    /\ last.status = Conflict
    /\ isDirty
    /\ query.query # queryText
    /\ growl = <<>>
    /\ location = [path |-> getSourceLink(query), hash |-> "1", replace |-> FALSE]

\* C20: a declined confirmation calls no collaborator and puts nothing in
\* flight; the deletion collaborator is called only by a confirmed request; a
\* failed deletion leaves the visualizations, the selected tab and the
\* location as they were and shows one error message; the visualizations
\* change only when a deletion succeeds, by the removal of the one deleted.
C20_DeleteOnlyOnSuccess ==
    [][/\ last'.op = "deleteDeclined"
          => /\ last'.invoked = "none"
             /\ pending' = pending
             /\ UNCHANGED <<query, selectedTab, location, growl>>
       /\ last'.invoked = "delete" => last'.op = "deleteVisualization"
       /\ last'.op = "deleteError"
          => /\ query'.visualizations = query.visualizations
             /\ selectedTab' = selectedTab
             /\ location' = location
             /\ growl' = Append(growl, DeleteErrorMessage)
       /\ query'.visualizations # query.visualizations
          => /\ last'.op = "deleteSuccess"
             /\ query'.visualizations = filter(query.visualizations, last'.id)]_vars

\* C20 witness: the deletion of the visualization of the selected tab failed;
\* the three visualizations and the tab are still there, the error is shown.
C20_Witness ==
    /\ last.op = "deleteError"
    /\ last.id = 1
    /\ query.visualizations = <<1, 2, 3>>
    /\ selectedTab = "1"
    /\ growl = <<DeleteErrorMessage>>

====
